---- MODULE Spec2Model ----
(***************************************************************************)
(* The TokenBalance ledger of src/lib.rs as a state machine.               *)
(*                                                                         *)
(* Every #[ink(message)] is one action.  A message is modelled as the Rust *)
(* method it is: the writes it has made before an early `return Err(..)`  *)
(* or a failing `?` stay in the storage (the spec's "batch-transfer leak"  *)
(* is exactly this behaviour).  A Mapping is modelled by the value every   *)
(* read of it sees, `get(k).unwrap_or(default)`: an absent entry and an    *)
(* entry holding the default are the same state.  u128 is scaled down to   *)
(* the range 0..U128_MAX.                                                  *)
(***************************************************************************)
EXTENDS Integers, Sequences, FiniteSets, TLC

VARIABLES balances, total_supply, owner, allowances, paused, blacklisted, last, calls

vars == <<balances, total_supply, owner, allowances, paused, blacklisted, last, calls>>

-----------------------------------------------------------------------------
(* Bounds *)

\* the largest value of the (scaled-down) u128
U128_MAX == 2

\* the longest recipient list given to batch_transfer
MaxBatch == 2

\* the number of messages dispatched in one run
MaxCalls == 2

Accounts == {"A", "B", "C"}

\* the account that deploys the contract
Creators == {"A"}

Amounts == 0..U128_MAX

NoAccount == "-"

Recipient == [to : Accounts, amount : Amounts]

\* Vec<(AccountId, u128)> of at most MaxBatch entries
RecipientLists == UNION {[1..n -> Recipient] : n \in 0..MaxBatch}

-----------------------------------------------------------------------------
(* u128 arithmetic *)

None == -1

checked_add(a, b) == IF a + b > U128_MAX THEN None ELSE a + b

saturating_sub(a, b) == IF a < b THEN 0 ELSE a - b

wrapping_add(a, b) == (a + b) % (U128_MAX + 1)

-----------------------------------------------------------------------------
(* Errors and events *)

InsufficientBalance == "InsufficientBalance"
TransferToSelf == "TransferToSelf"
NotOwner == "NotOwner"
InvalidAmount == "InvalidAmount"
Ok == "Ok"
Panic == "Panic"

Error == {InsufficientBalance, TransferToSelf, NotOwner, InvalidAmount}

NoEvent == [kind |-> "none", from |-> NoAccount, to |-> NoAccount, amount |-> 0]

TokensMinted(to, amount) ==
    [kind |-> "TokensMinted", from |-> NoAccount, to |-> to, amount |-> amount]

TokensTransferred(from, to, amount) ==
    [kind |-> "TokensTransferred", from |-> from, to |-> to, amount |-> amount]

-----------------------------------------------------------------------------
(* The storage: the fields of struct TokenBalance *)

\* the storage the running message sees
Storage ==
    [balances |-> balances, total_supply |-> total_supply, owner |-> owner,
     allowances |-> allowances, paused |-> paused, blacklisted |-> blacklisted]

\* what a message leaves behind: the storage, its return value, the event it emitted
Return(s, result, event) == [state |-> s, result |-> result, event |-> event]

Err(s, e) == Return(s, e, NoEvent)

\* queries
balance_of(s, account) == s.balances[account]

allowance(s, o, spender) == s.allowances[<<o, spender>>]

is_paused(s) == s.paused

is_blacklisted(s, account) == s.blacklisted[account]

my_balance(s, caller) == balance_of(s, caller)

RECURSIVE SumOver(_, _)
SumOver(b, S) ==
    IF S = {} THEN 0
    ELSE LET a == CHOOSE x \in S : TRUE IN b[a] + SumOver(b, S \ {a})

SumBalances(s) == SumOver(s.balances, Accounts)

-----------------------------------------------------------------------------
(* Messages: each operator is the outcome of the call on storage s *)

\* mutant: the event is emitted before total_supply is checked
mint_call_emits_early(s, caller, to, amount) ==
    IF caller # s.owner THEN Err(s, NotOwner)
    ELSE IF amount = 0 THEN Err(s, InvalidAmount)
    ELSE LET new_balance == checked_add(s.balances[to], amount)
         IN IF new_balance = None THEN Err(s, InvalidAmount)
            ELSE LET inserted == [s EXCEPT !.balances[to] = new_balance]
                     new_supply == checked_add(s.total_supply, amount)
                 IN IF new_supply = None
                    THEN Return(inserted, InvalidAmount, TokensMinted(to, amount))
                    ELSE Return([inserted EXCEPT !.total_supply = new_supply], Ok,
                                TokensMinted(to, amount))

\* mutant: the supply saturates where the code fails
mint_call_supply_saturates(s, caller, to, amount) ==
    IF caller # s.owner THEN Err(s, NotOwner)
    ELSE IF amount = 0 THEN Err(s, InvalidAmount)
    ELSE LET new_balance == checked_add(s.balances[to], amount)
         IN IF new_balance = None THEN Err(s, InvalidAmount)
            ELSE LET sum == s.total_supply + amount
                     new_supply == IF sum > U128_MAX THEN U128_MAX ELSE sum
                 IN Return([s EXCEPT !.balances[to] = new_balance,
                                     !.total_supply = new_supply],
                           Ok, TokensMinted(to, amount))

mint_call(s, caller, to, amount) ==
    IF caller # s.owner THEN Err(s, NotOwner)
    ELSE IF amount = 0 THEN Err(s, InvalidAmount)
    ELSE LET current_balance == s.balances[to]
             new_balance == checked_add(current_balance, amount)
         IN IF new_balance = None THEN Err(s, InvalidAmount)
            ELSE LET inserted == [s EXCEPT !.balances[to] = new_balance]
                     new_supply == checked_add(s.total_supply, amount)
                 IN IF new_supply = None THEN Err(inserted, InvalidAmount)
                    ELSE Return([inserted EXCEPT !.total_supply = new_supply], Ok,
                                TokensMinted(to, amount))

\* mutant: the blacklist check looks at the caller only
transfer_check_caller_only(s, caller, to, amount) ==
    IF s.paused THEN InvalidAmount
    ELSE IF s.blacklisted[caller] THEN InvalidAmount
    ELSE IF caller = to THEN TransferToSelf
    ELSE IF amount = 0 THEN InvalidAmount
    ELSE IF s.balances[caller] < amount THEN InsufficientBalance
    ELSE IF checked_add(s.balances[to], amount) = None THEN InvalidAmount
    ELSE Ok

\* mutant: the amount is checked before the self-transfer
transfer_check_amount_first(s, caller, to, amount) ==
    IF s.paused THEN InvalidAmount
    ELSE IF s.blacklisted[caller] \/ s.blacklisted[to] THEN InvalidAmount
    ELSE IF amount = 0 THEN InvalidAmount
    ELSE IF caller = to THEN TransferToSelf
    ELSE IF s.balances[caller] < amount THEN InsufficientBalance
    ELSE IF checked_add(s.balances[to], amount) = None THEN InvalidAmount
    ELSE Ok

\* the checks of transfer, in the order of the code
transfer_check(s, caller, to, amount) ==
    IF s.paused THEN InvalidAmount
    ELSE IF s.blacklisted[caller] \/ s.blacklisted[to] THEN InvalidAmount
    ELSE IF caller = to THEN TransferToSelf
    ELSE IF amount = 0 THEN InvalidAmount
    ELSE IF s.balances[caller] < amount THEN InsufficientBalance
    ELSE IF checked_add(s.balances[to], amount) = None THEN InvalidAmount
    ELSE Ok

\* mutant: the caller's new balance is never stored
transfer_call_no_debit(s, caller, to, amount) ==
    IF transfer_check(s, caller, to, amount) # Ok
    THEN Err(s, transfer_check(s, caller, to, amount))
    ELSE LET to_balance == s.balances[to]
             new_to_balance == checked_add(to_balance, amount)
             s2 == [s EXCEPT !.balances[to] = new_to_balance]
         IN Return(s2, Ok, TokensTransferred(caller, to, amount))

transfer_call(s, caller, to, amount) ==
    IF transfer_check(s, caller, to, amount) # Ok
    THEN Err(s, transfer_check(s, caller, to, amount))
    ELSE LET caller_balance == s.balances[caller]
             to_balance == s.balances[to]
             new_caller_balance == saturating_sub(caller_balance, amount)
             new_to_balance == checked_add(to_balance, amount)
             s1 == [s EXCEPT !.balances[caller] = new_caller_balance]
             s2 == [s1 EXCEPT !.balances[to] = new_to_balance]
         IN Return(s2, Ok, TokensTransferred(caller, to, amount))

\* mutant: the zero amount is not rejected
burn_call_no_zero_check(s, caller, amount) ==
    LET caller_balance == s.balances[caller]
    IN IF caller_balance < amount THEN Err(s, InsufficientBalance)
       ELSE Return([s EXCEPT !.balances[caller] = saturating_sub(caller_balance, amount),
                             !.total_supply = saturating_sub(s.total_supply, amount)],
                   Ok, NoEvent)

\* mutant: burn is refused while the ledger is paused or the caller is blacklisted
burn_call_gated(s, caller, amount) ==
    LET caller_balance == s.balances[caller]
    IN IF s.paused \/ s.blacklisted[caller] THEN Err(s, InvalidAmount)
       ELSE IF amount = 0 THEN Err(s, InvalidAmount)
       ELSE IF caller_balance < amount THEN Err(s, InsufficientBalance)
       ELSE Return([s EXCEPT !.balances[caller] = saturating_sub(caller_balance, amount),
                             !.total_supply = saturating_sub(s.total_supply, amount)],
                   Ok, NoEvent)

burn_call(s, caller, amount) ==
    LET caller_balance == s.balances[caller]
    IN IF amount = 0 THEN Err(s, InvalidAmount)
       ELSE IF caller_balance < amount THEN Err(s, InsufficientBalance)
       ELSE Return([s EXCEPT !.balances[caller] = saturating_sub(caller_balance, amount),
                             !.total_supply = saturating_sub(s.total_supply, amount)],
                   Ok, NoEvent)

\* mutant: the amount is added to the stored allowance
approve_call_adds(s, caller, spender, amount) ==
    LET sum == checked_add(s.allowances[<<caller, spender>>], amount)
    IN IF sum = None THEN Err(s, InvalidAmount)
       ELSE Return([s EXCEPT !.allowances[<<caller, spender>>] = sum], Ok, NoEvent)

approve_call(s, caller, spender, amount) ==
    Return([s EXCEPT !.allowances[<<caller, spender>>] = amount], Ok, NoEvent)

\* mutant: the allowance is not lowered
transfer_from_call_keeps_allowance(s, caller, from, to, amount) ==
    LET allowed == s.allowances[<<from, caller>>]
    IN IF amount = 0 THEN Err(s, InvalidAmount)
       ELSE IF allowed < amount THEN Err(s, InsufficientBalance)
       ELSE LET from_balance == s.balances[from]
            IN IF from_balance < amount THEN Err(s, InsufficientBalance)
               ELSE LET new_from_balance == saturating_sub(from_balance, amount)
                        new_to_balance == checked_add(s.balances[to], amount)
                    IN IF new_to_balance = None THEN Err(s, InvalidAmount)
                       ELSE LET s1 == [s EXCEPT !.balances[from] = new_from_balance]
                            IN Return([s1 EXCEPT !.balances[to] = new_to_balance],
                                      Ok, NoEvent)

transfer_from_call(s, caller, from, to, amount) ==
    LET allowed == s.allowances[<<from, caller>>]
    IN IF amount = 0 THEN Err(s, InvalidAmount)
       ELSE IF allowed < amount THEN Err(s, InsufficientBalance)
       ELSE LET from_balance == s.balances[from]
            IN IF from_balance < amount THEN Err(s, InsufficientBalance)
               ELSE LET new_from_balance == saturating_sub(from_balance, amount)
                        new_to_balance == checked_add(s.balances[to], amount)
                        new_allowance == saturating_sub(allowed, amount)
                    IN IF new_to_balance = None THEN Err(s, InvalidAmount)
                       ELSE LET s1 == [s EXCEPT !.balances[from] = new_from_balance]
                                s2 == [s1 EXCEPT !.balances[to] = new_to_balance]
                            IN Return([s2 EXCEPT !.allowances[<<from, caller>>] =
                                                     new_allowance],
                                      Ok, NoEvent)

\* mutant: the owner check is missing
pause_call_any_caller(s, caller) ==
    Return([s EXCEPT !.paused = TRUE], Ok, NoEvent)

pause_call(s, caller) ==
    IF caller # s.owner THEN Err(s, NotOwner)
    ELSE Return([s EXCEPT !.paused = TRUE], Ok, NoEvent)

\* mutant: unpause flips the flag
unpause_call_toggles(s, caller) ==
    IF caller # s.owner THEN Err(s, NotOwner)
    ELSE Return([s EXCEPT !.paused = ~s.paused], Ok, NoEvent)

unpause_call(s, caller) ==
    IF caller # s.owner THEN Err(s, NotOwner)
    ELSE Return([s EXCEPT !.paused = FALSE], Ok, NoEvent)

\* mutant: blacklist pauses the ledger as well
blacklist_call_pauses(s, caller, account) ==
    IF caller # s.owner THEN Err(s, NotOwner)
    ELSE Return([s EXCEPT !.blacklisted[account] = TRUE, !.paused = TRUE], Ok, NoEvent)

blacklist_call(s, caller, account) ==
    IF caller # s.owner THEN Err(s, NotOwner)
    ELSE Return([s EXCEPT !.blacklisted[account] = TRUE], Ok, NoEvent)

unblacklist_call(s, caller, account) ==
    IF caller # s.owner THEN Err(s, NotOwner)
    ELSE Return([s EXCEPT !.blacklisted[account] = FALSE], Ok, NoEvent)

\* recipients.iter().map(|(_, amount)| amount).sum(), without the u128 limit
RECURSIVE TrueTotal(_)
TrueTotal(recipients) ==
    IF recipients = <<>> THEN 0
    ELSE Head(recipients).amount + TrueTotal(Tail(recipients))

\* the same sum in a build without overflow checks: every addition wraps
RECURSIVE WrappedTotal(_)
WrappedTotal(recipients) ==
    IF recipients = <<>> THEN 0
    ELSE LET n == Len(recipients)
         IN wrapping_add(WrappedTotal(SubSeq(recipients, 1, n - 1)), recipients[n].amount)

\* does an addition of the sum (from 0, left to right) leave u128
RECURSIVE SumOverflows(_, _)
SumOverflows(acc, recipients) ==
    IF recipients = <<>> THEN FALSE
    ELSE \/ acc + Head(recipients).amount > U128_MAX
         \/ SumOverflows(acc + Head(recipients).amount, Tail(recipients))

\* the loop "Perform all transfers": the storage it leaves and how it ended
RECURSIVE credit_loop(_, _, _)
credit_loop(s, caller, recipients) ==
    IF recipients = <<>> THEN Err(s, Ok)
    ELSE LET to == Head(recipients).to
             amount == Head(recipients).amount
         IN IF caller = to THEN Err(s, TransferToSelf)
            ELSE LET new_to_balance == checked_add(s.balances[to], amount)
                 IN IF new_to_balance = None THEN Err(s, InvalidAmount)
                    ELSE credit_loop([s EXCEPT !.balances[to] = new_to_balance], caller,
                                     Tail(recipients))

\* mutant: a failure in the loop gives back the storage the call started with
batch_transfer_call_atomic(s, caller, recipients, overflow_checks) ==
    LET caller_balance == s.balances[caller]
    IN IF overflow_checks /\ SumOverflows(0, recipients) THEN Err(s, Panic)
       ELSE LET total_amount == WrappedTotal(recipients)
            IN IF caller_balance < total_amount THEN Err(s, InsufficientBalance)
               ELSE IF \E i \in 1..Len(recipients) : recipients[i].amount = 0
                    THEN Err(s, InvalidAmount)
               ELSE LET done == credit_loop(s, caller, recipients)
                    IN IF done.result # Ok THEN Err(s, done.result)
                       ELSE Return([done.state EXCEPT !.balances[caller] =
                                        saturating_sub(caller_balance, total_amount)],
                                   Ok, NoEvent)

\* overflow_checks: whether the build panics on integer overflow (a debug build, or
\* overflow-checks = true) or wraps (a release build)
batch_transfer_call(s, caller, recipients, overflow_checks) ==
    LET caller_balance == s.balances[caller]
    IN IF overflow_checks /\ SumOverflows(0, recipients) THEN Err(s, Panic)
       ELSE LET total_amount == WrappedTotal(recipients)
            IN IF caller_balance < total_amount THEN Err(s, InsufficientBalance)
               ELSE IF \E i \in 1..Len(recipients) : recipients[i].amount = 0
                    THEN Err(s, InvalidAmount)
               ELSE LET done == credit_loop(s, caller, recipients)
                    IN IF done.result # Ok THEN done
                       ELSE Return([done.state EXCEPT !.balances[caller] =
                                        saturating_sub(caller_balance, total_amount)],
                                   Ok, NoEvent)

-----------------------------------------------------------------------------
(* The state machine *)

\* the storage after the message; `last` records the message: which one, who called
\* it, what it returned, the event it emitted and whether it changed the storage
Commit(op, caller, out) ==
    /\ balances' = out.state.balances
    /\ total_supply' = out.state.total_supply
    /\ owner' = out.state.owner
    /\ allowances' = out.state.allowances
    /\ paused' = out.state.paused
    /\ blacklisted' = out.state.blacklisted
    /\ last' = [op |-> op, caller |-> caller, result |-> out.result,
                event |-> out.event, changed |-> out.state # Storage]

new(caller) ==
    /\ balances = [a \in Accounts |-> 0]
    /\ total_supply = 0
    /\ owner = caller
    /\ allowances = [p \in Accounts \X Accounts |-> 0]
    /\ paused = FALSE
    /\ blacklisted = [a \in Accounts |-> FALSE]
    /\ last = [op |-> "new", caller |-> caller, result |-> Ok, event |-> NoEvent,
               changed |-> FALSE]
    /\ calls = 0

Init == \E caller \in Creators : new(caller)

mint(caller, to, amount) ==
    Commit("mint", caller, mint_call(Storage, caller, to, amount))

transfer(caller, to, amount) ==
    Commit("transfer", caller, transfer_call(Storage, caller, to, amount))

burn(caller, amount) ==
    Commit("burn", caller, burn_call(Storage, caller, amount))

approve(caller, spender, amount) ==
    Commit("approve", caller, approve_call(Storage, caller, spender, amount))

transfer_from(caller, from, to, amount) ==
    Commit("transfer_from", caller, transfer_from_call(Storage, caller, from, to, amount))

pause(caller) ==
    Commit("pause", caller, pause_call(Storage, caller))

unpause(caller) ==
    Commit("unpause", caller, unpause_call(Storage, caller))

blacklist(caller, account) ==
    Commit("blacklist", caller, blacklist_call(Storage, caller, account))

unblacklist(caller, account) ==
    Commit("unblacklist", caller, unblacklist_call(Storage, caller, account))

batch_transfer(caller, recipients, overflow_checks) ==
    Commit("batch_transfer", caller,
           batch_transfer_call(Storage, caller, recipients, overflow_checks))

\* one more message of a run of at most MaxCalls messages
Counted == calls < MaxCalls /\ calls' = calls + 1

\* any message, by any caller, with any arguments
Next ==
    \/ \E caller, to \in Accounts, amount \in Amounts :
          Counted /\ mint(caller, to, amount)
    \/ \E caller, to \in Accounts, amount \in Amounts :
          Counted /\ transfer(caller, to, amount)
    \/ \E caller \in Accounts, amount \in Amounts :
          Counted /\ burn(caller, amount)
    \/ \E caller, spender \in Accounts, amount \in Amounts :
          Counted /\ approve(caller, spender, amount)
    \/ \E caller, from, to \in Accounts, amount \in Amounts :
          Counted /\ transfer_from(caller, from, to, amount)
    \/ \E caller \in Accounts : Counted /\ pause(caller)
    \/ \E caller \in Accounts : Counted /\ unpause(caller)
    \/ \E caller, account \in Accounts : Counted /\ blacklist(caller, account)
    \/ \E caller, account \in Accounts : Counted /\ unblacklist(caller, account)
    \/ \E caller \in Accounts, recipients \in RecipientLists, overflow_checks \in BOOLEAN :
          Counted /\ batch_transfer(caller, recipients, overflow_checks)

\* every run of at most MaxCalls messages
Spec == Init /\ [][Next]_vars

\* the accounts the owner blacklists in the direct-transfer slice
Suspects == {"B", "C"}

\* the direct-transfer slice: runs of any length of mint, burn, transfer and the
\* pause and blacklist messages
NextTransfer ==
    \/ \E caller, to \in Accounts, amount \in Amounts :
          mint(caller, to, amount) /\ UNCHANGED calls
    \/ \E caller, to \in Accounts, amount \in Amounts :
          transfer(caller, to, amount) /\ UNCHANGED calls
    \/ \E caller \in Accounts, amount \in Amounts :
          burn(caller, amount) /\ UNCHANGED calls
    \/ \E caller \in Accounts : pause(caller) /\ UNCHANGED calls
    \/ \E caller \in Accounts : unpause(caller) /\ UNCHANGED calls
    \/ \E caller \in Accounts, account \in Suspects :
          blacklist(caller, account) /\ UNCHANGED calls
    \/ \E caller \in Accounts, account \in Suspects :
          unblacklist(caller, account) /\ UNCHANGED calls

SpecTransfer == Init /\ [][NextTransfer]_vars

\* the accounts that grant allowances in the allowance slice, and their spenders
Approvers == {"B"}

Spenders == {"B", "C"}

\* the allowance slice: runs of any length of mint, approve and transfer_from
NextAllowance ==
    \/ \E caller, to \in Accounts, amount \in Amounts :
          mint(caller, to, amount) /\ UNCHANGED calls
    \/ \E caller \in Approvers, spender \in Spenders, amount \in Amounts :
          approve(caller, spender, amount) /\ UNCHANGED calls
    \/ \E caller, from, to \in Accounts, amount \in Amounts :
          transfer_from(caller, from, to, amount) /\ UNCHANGED calls

SpecAllowance == Init /\ [][NextAllowance]_vars

\* the batch slice: runs of any length of the owner's mint and one sender's
\* batch_transfer; the build's overflow checks are drawn only where the sum of the
\* amounts overflows, the one place they are observable
Senders == {"B"}

NextBatch ==
    \/ \E caller \in Creators, to \in Accounts, amount \in Amounts :
          mint(caller, to, amount) /\ UNCHANGED calls
    \/ \E caller \in Senders, recipients \in RecipientLists :
          \E overflow_checks \in IF SumOverflows(0, recipients) THEN BOOLEAN ELSE {FALSE} :
              batch_transfer(caller, recipients, overflow_checks) /\ UNCHANGED calls

SpecBatch == Init /\ [][NextBatch]_vars

\* the ungated slice: runs of any length in which the owner mints to one holder,
\* pauses the ledger and blacklists the holder, the holder approves one delegate, and
\* the delegate draws on the holder and both burn
Holders == {"B"}
Delegates == {"C"}

NextUngated ==
    \/ \E caller \in Creators, to \in Holders, amount \in Amounts :
          mint(caller, to, amount) /\ UNCHANGED calls
    \/ \E caller \in Holders, spender \in Delegates, amount \in Amounts :
          approve(caller, spender, amount) /\ UNCHANGED calls
    \/ \E caller \in Holders \cup Delegates, amount \in Amounts :
          burn(caller, amount) /\ UNCHANGED calls
    \/ \E caller \in Delegates, from \in Holders, to \in Delegates, amount \in Amounts :
          transfer_from(caller, from, to, amount) /\ UNCHANGED calls
    \/ \E caller \in Creators : pause(caller) /\ UNCHANGED calls
    \/ \E caller \in Creators, account \in Holders :
          blacklist(caller, account) /\ UNCHANGED calls

SpecUngated == Init /\ [][NextUngated]_vars

-----------------------------------------------------------------------------
(* Properties *)

\* the outcomes of the messages `caller` can send in the current state that are open
\* to every caller (for batch_transfer: with at most one recipient)
OpenOutcomes(caller) ==
    {burn_call(Storage, caller, amount) : amount \in Amounts}
    \cup {batch_transfer_call(Storage, caller, <<>>, FALSE)}
    \cup UNION {{transfer_call(Storage, caller, to, amount),
                 approve_call(Storage, caller, to, amount),
                 batch_transfer_call(Storage, caller, <<[to |-> to, amount |-> amount]>>,
                                     FALSE)}
                    \cup {transfer_from_call(Storage, caller, from, to, amount) :
                              from \in Accounts} :
                 to \in Accounts, amount \in Amounts}

\* the compliance gate rejects a transfer between caller and to
Gated(caller, to) == paused \/ blacklisted[caller] \/ blacklisted[to]

\* C1: in every reachable state total_supply equals the sum of balance_of(a) over
\* all accounts a.
C1_SupplyIsSumOfBalances == total_supply = SumBalances(Storage)

\* C2: a mint, burn, transfer, transfer_from, approve, pause, unpause, blacklist or
\* unblacklist that returned an error has left the whole storage as it was.
C2_FailedCallChangesNothing ==
    (last.op # "batch_transfer" /\ last.result # Ok) => ~last.changed

\* C3: called by anyone but the owner, mint, pause, unpause, blacklist and unblacklist
\* return NotOwner and leave the storage unchanged, for every argument; and no message
\* of a caller who is not the owner raises total_supply, changes the pause flag or
\* changes a blacklist entry.
C3_NonOwnerRejected ==
    \A caller \in Accounts \ {owner} :
        /\ \A account \in Accounts :
              /\ \A amount \in Amounts :
                    mint_call(Storage, caller, account, amount) = Err(Storage, NotOwner)
              /\ blacklist_call(Storage, caller, account) = Err(Storage, NotOwner)
              /\ unblacklist_call(Storage, caller, account) = Err(Storage, NotOwner)
        /\ pause_call(Storage, caller) = Err(Storage, NotOwner)
        /\ unpause_call(Storage, caller) = Err(Storage, NotOwner)
        /\ \A out \in OpenOutcomes(caller) :
              /\ out.state.total_supply <= total_supply
              /\ out.state.paused = paused
              /\ out.state.blacklisted = blacklisted

\* a mint by an account that is not the owner has returned NotOwner
C3_Witness ==
    /\ last.op = "mint"
    /\ last.caller # owner
    /\ last.result = NotOwner
    /\ ~last.changed

\* C4: while the ledger is paused, or the caller or the recipient is blacklisted,
\* transfer returns InvalidAmount for every recipient and amount and changes nothing;
\* after the owner's unpause and unblacklist of both parties the same transfer
\* succeeds when its other preconditions hold.
C4_GateRejectsTransfer ==
    \A caller \in Accounts, to \in Accounts, amount \in Amounts :
        LET unpaused == unpause_call(Storage, owner).state
            cleared == unblacklist_call(unblacklist_call(unpaused, owner, caller).state,
                                        owner, to).state
        IN Gated(caller, to) =>
              /\ transfer_call(Storage, caller, to, amount) = Err(Storage, InvalidAmount)
              /\ ( /\ caller # to
                   /\ amount > 0
                   /\ balances[caller] >= amount
                   /\ balances[to] + amount <= U128_MAX )
                 => transfer_call(cleared, caller, to, amount).result = Ok

\* a holder's transfer has been rejected while the ledger is paused
C4_Witness ==
    /\ last.op = "transfer"
    /\ last.result = InvalidAmount
    /\ ~last.changed
    /\ paused
    /\ balances[last.caller] > 0
    /\ ~blacklisted[last.caller]

\* C5: transfer succeeds exactly when the gate is open, caller # to, amount > 0, the
\* caller holds the amount and the recipient's balance does not overflow; then the
\* caller has exactly amount less, the recipient exactly amount more, and nothing
\* else has changed.
C5_TransferExact ==
    \A caller \in Accounts, to \in Accounts, amount \in Amounts :
        LET out == transfer_call(Storage, caller, to, amount)
            can == /\ ~Gated(caller, to)
                   /\ caller # to
                   /\ amount > 0
                   /\ balances[caller] >= amount
                   /\ balances[to] + amount <= U128_MAX
        IN /\ out.result = Ok <=> can
           /\ out.result = Ok =>
                 /\ out.state.balances[caller] = balances[caller] - amount
                 /\ out.state.balances[to] = balances[to] + amount
                 /\ \A a \in Accounts \ {caller, to} : out.state.balances[a] = balances[a]
                 /\ out.state.total_supply = total_supply
                 /\ out.state.allowances = allowances
                 /\ out.state.paused = paused
                 /\ out.state.blacklisted = blacklisted
                 /\ out.state.owner = owner

\* a transfer has succeeded and moved tokens
C5_Witness ==
    /\ last.op = "transfer"
    /\ last.result = Ok
    /\ last.changed
    /\ last.event.kind = "TokensTransferred"
    /\ last.event.from = last.caller
    /\ balances[last.event.to] >= last.event.amount

\* what C6 says of the call transfer_from(from, to, amount) by caller, as a step
C6_Claim(caller, from, to, amount) ==
    /\ amount = 0 => last'.result = InvalidAmount
    /\ (amount > 0 /\ (allowances[<<from, caller>>] < amount \/ balances[from] < amount))
          => last'.result = InsufficientBalance
    /\ last'.result = Ok =>
          /\ allowances'[<<from, caller>>] = allowances[<<from, caller>>] - amount
          /\ SumOver(balances', Accounts) = SumOver(balances, Accounts)
          /\ total_supply' = total_supply
          /\ from = to => balances'[from] = balances[from]
          /\ from # to => /\ balances'[from] = balances[from] - amount
                          /\ balances'[to] = balances[to] + amount

\* C6: transfer_from fails with InvalidAmount on amount 0, otherwise with
\* InsufficientBalance when the allowance or the balance of `from` is below amount;
\* when it succeeds the allowance is lower by amount and amount has moved from
\* `from` to `to`: the sum of the balances and total_supply are unchanged, and with
\* from = to the balance is unchanged.
C6_TransferFromAsClaimed ==
    [][\A caller \in Accounts, from \in Accounts, to \in Accounts, amount \in Amounts :
          transfer_from(caller, from, to, amount) => C6_Claim(caller, from, to, amount)]_vars

\* C7 as stated: mint(to, 0), transfer(to, 0), burn(0) and transfer_from(from, to, 0)
\* fail with InvalidAmount for every caller and every other argument.
C7_ZeroAmountAlwaysInvalid ==
    [][\A caller \in Accounts, from \in Accounts, to \in Accounts :
          ( \/ mint(caller, to, 0)
            \/ transfer(caller, to, 0)
            \/ burn(caller, 0)
            \/ transfer_from(caller, from, to, 0) )
          => last'.result = InvalidAmount]_vars

\* C7 (amended): a zero amount never succeeds and changes nothing: burn(0) and
\* transfer_from(from, to, 0) fail with InvalidAmount for every caller; mint(to, 0)
\* fails with InvalidAmount for the owner and with NotOwner for anyone else;
\* transfer(to, 0) fails with InvalidAmount, except that a transfer to oneself that
\* passes the gate fails with TransferToSelf.
C7_ZeroAmountRejected ==
    \A caller \in Accounts, to \in Accounts :
        /\ burn_call(Storage, caller, 0) = Err(Storage, InvalidAmount)
        /\ \A from \in Accounts :
              transfer_from_call(Storage, caller, from, to, 0) = Err(Storage, InvalidAmount)
        /\ mint_call(Storage, caller, to, 0) =
              Err(Storage, IF caller = owner THEN InvalidAmount ELSE NotOwner)
        /\ transfer_call(Storage, caller, to, 0) =
              Err(Storage, IF caller = to /\ ~Gated(caller, to)
                           THEN TransferToSelf ELSE InvalidAmount)

\* a holder's burn has failed with InvalidAmount: burn returns it for amount 0 only
C7_Witness ==
    /\ last.op = "burn"
    /\ last.result = InvalidAmount
    /\ ~last.changed
    /\ balances[last.caller] > 0

\* C8: transfer returns the error of the first failing check in the order gate,
\* self-transfer, zero amount, insufficient balance, recipient overflow; so an ungated
\* transfer to oneself returns TransferToSelf for every amount, and a transfer to
\* another account returns InsufficientBalance only for a nonzero amount.
C8_TransferErrorOrder ==
    \A caller \in Accounts, to \in Accounts, amount \in Amounts :
        LET result == transfer_call(Storage, caller, to, amount).result
            open == ~Gated(caller, to)
        IN /\ ~open => result = InvalidAmount
           /\ (open /\ caller = to) => result = TransferToSelf
           /\ (open /\ caller # to /\ amount = 0) => result = InvalidAmount
           /\ (open /\ caller # to /\ amount > 0 /\ balances[caller] < amount)
                 => result = InsufficientBalance
           /\ ( /\ open /\ caller # to /\ amount > 0 /\ balances[caller] >= amount
                /\ balances[to] + amount > U128_MAX )
                 => result = InvalidAmount
           /\ result = InsufficientBalance => (amount # 0 /\ caller # to)

\* an account without tokens has transferred to itself and got TransferToSelf
C8_Witness ==
    /\ last.op = "transfer"
    /\ last.result = TransferToSelf
    /\ ~last.changed
    /\ balances[last.caller] = 0
    /\ total_supply > 0

\* C9: approve never fails and overwrites: whatever was stored, after
\* approve(spender, N) the allowance of (caller, spender) is N, every other allowance
\* is what it was, and nothing else has changed.
C9_ApproveOverwrites ==
    \A caller \in Accounts, spender \in Accounts, amount \in Amounts :
        LET out == approve_call(Storage, caller, spender, amount)
        IN /\ out.result = Ok
           /\ allowance(out.state, caller, spender) = amount
           /\ \A o \in Accounts, s \in Accounts :
                 <<o, s>> # <<caller, spender>> =>
                     allowance(out.state, o, s) = allowance(Storage, o, s)
           /\ out.state.balances = balances
           /\ out.state.total_supply = total_supply

\* an approve has replaced a nonzero allowance by 0 (it changed the storage and the
\* caller's allowances are now all 0), by a caller that holds tokens
C9_Witness ==
    /\ last.op = "approve"
    /\ last.result = Ok
    /\ last.changed
    /\ \A s \in Accounts : allowances[<<last.caller, s>>] = 0
    /\ balances[last.caller] > 0

\* C10: pause, unpause, blacklist(x) and unblacklist(x) by the owner succeed, and
\* calling one a second time succeeds and leaves the storage as the first call left it.
C10_AdminIdempotent ==
    LET Twice(first, second) ==
            /\ first.result = Ok
            /\ second.result = Ok
            /\ second.state = first.state
    IN /\ Twice(pause_call(Storage, owner),
                pause_call(pause_call(Storage, owner).state, owner))
       /\ Twice(unpause_call(Storage, owner),
                unpause_call(unpause_call(Storage, owner).state, owner))
       /\ \A x \in Accounts :
             /\ Twice(blacklist_call(Storage, owner, x),
                      blacklist_call(blacklist_call(Storage, owner, x).state, owner, x))
             /\ Twice(unblacklist_call(Storage, owner, x),
                      unblacklist_call(unblacklist_call(Storage, owner, x).state, owner, x))

\* the owner has called unpause on a ledger that was not paused: nothing changed
C10_Witness ==
    /\ last.op = "unpause"
    /\ last.caller = owner
    /\ last.result = Ok
    /\ ~last.changed
    /\ total_supply > 0

-----------------------------------------------------------------------------
(* batch_transfer *)

\* the amounts the first n entries of the list name for account a, added up
RECURSIVE Listed(_, _, _)
Listed(recipients, a, n) ==
    IF n = 0 THEN 0
    ELSE Listed(recipients, a, n - 1)
         + (IF recipients[n].to = a THEN recipients[n].amount ELSE 0)

\* the amounts of the first n entries, added up
Prefix(recipients, n) == TrueTotal(SubSeq(recipients, 1, n))

\* the storages of the reachable states are the storages of the states that new or a
\* message that changed the storage has just left
Fresh == last.op = "new" \/ last.changed

\* what C11 says of the batch_transfer that has just returned
C11_Claim(caller, recipients) ==
    last'.result = Ok =>
        /\ \A a \in Accounts \ {caller} :
              balances'[a] = balances[a] + Listed(recipients, a, Len(recipients))
        /\ balances'[caller] = balances[caller] - TrueTotal(recipients)
        /\ SumOver(balances', Accounts) = SumOver(balances, Accounts)
        /\ total_supply' = total_supply

\* C11: a batch_transfer that succeeds raises the balance of every account other than
\* the caller by exactly the sum of the amounts the list names for it, lowers the
\* caller's balance by exactly the total of the amounts, and leaves the sum of all
\* balances and total_supply as they were.
C11_BatchExact ==
    [][last'.op = "batch_transfer" =>
          \A recipients \in RecipientLists, overflow_checks \in BOOLEAN :
              batch_transfer(last'.caller, recipients, overflow_checks)
                  => C11_Claim(last'.caller, recipients)]_vars

\* entry i of the list is one the loop "Perform all transfers" stops at: it names the
\* caller, or the balance of its account with the earlier entries' credits cannot take
\* its amount
Stops(caller, recipients, i) ==
    \/ recipients[i].to = caller
    \/ balances[recipients[i].to] + Listed(recipients, recipients[i].to, i - 1)
           + recipients[i].amount > U128_MAX

\* the lists that pass the zero-amount check
Payments == {recipients \in RecipientLists :
                \A i \in 1..Len(recipients) : recipients[i].amount # 0}

\* total_amount for each of them
PaymentTotal == [recipients \in Payments |-> WrappedTotal(recipients)]

\* the call passes the balance check and the zero-amount check and fails at entry k
FailsAt(caller, recipients, overflow_checks, k) ==
    /\ recipients \in Payments
    /\ balances[caller] >= WrappedTotal(recipients)
    /\ ~(overflow_checks /\ SumOverflows(0, recipients))
    /\ Stops(caller, recipients, k)
    /\ \A i \in 1..(k - 1) : ~Stops(caller, recipients, i)

\* what the failed call leaves: the error of entry k, the credits of the entries before
\* k, the caller's balance and the rest of the storage as they were
LateFailure(out, caller, recipients, k) ==
    /\ out.result = IF recipients[k].to = caller THEN TransferToSelf ELSE InvalidAmount
    /\ \A a \in Accounts :
          out.state.balances[a] = balances[a] + Listed(recipients, a, k - 1)
    /\ out.state.balances[caller] = balances[caller]
    /\ [out.state EXCEPT !.balances = balances] = Storage
    /\ out.event = NoEvent

\* C12 as stated: after a batch_transfer that failed at entry k, the sum of all balances
\* exceeds total_supply by the sum of the amounts of the entries before k.
C12_LeakAboveSupply ==
    [][last'.op = "batch_transfer" =>
          \A recipients \in RecipientLists, overflow_checks \in BOOLEAN :
              \A k \in 1..Len(recipients) :
                  ( /\ batch_transfer(last'.caller, recipients, overflow_checks)
                    /\ FailsAt(last'.caller, recipients, overflow_checks, k) )
                  => SumOver(balances', Accounts) = total_supply' + Prefix(recipients, k - 1)
      ]_vars

\* C12: a batch_transfer that passes the balance check and the zero-amount check and
\* fails at entry k returns TransferToSelf or InvalidAmount, every recipient before k
\* keeps its credit, the caller is not debited and nothing else changes, so the sum of
\* all balances after the call exceeds the sum before it by the sum of the amounts
\* already credited, while total_supply stays.
C12_LateFailureKeepsCredits ==
    Fresh =>
        \A recipients \in Payments :
            \A caller \in {a \in Accounts : balances[a] >= PaymentTotal[recipients]} :
                \A k \in 1..Len(recipients) :
                    ( /\ Stops(caller, recipients, k)
                      /\ \A i \in 1..(k - 1) : ~Stops(caller, recipients, i) ) =>
                        \A overflow_checks \in BOOLEAN :
                            FailsAt(caller, recipients, overflow_checks, k) =>
                                LET out == batch_transfer_call(Storage, caller, recipients,
                                                               overflow_checks)
                                IN /\ LateFailure(out, caller, recipients, k)
                                   /\ SumBalances(out.state)
                                          = SumBalances(Storage) + Prefix(recipients, k - 1)
                                   /\ out.state.total_supply = total_supply

\* a batch_transfer has failed in its loop after it had credited a recipient
C12_Witness ==
    /\ last.op = "batch_transfer"
    /\ last.result \in {TransferToSelf, InvalidAmount}
    /\ last.changed
    /\ SumBalances(Storage) > total_supply


\* what C16 says of the batch_transfer that has just returned
C16_Claim(caller, recipients) ==
    IF balances[caller] < TrueTotal(recipients)
    THEN last'.result = InsufficientBalance /\ ~last'.changed
    ELSE (\E i \in 1..Len(recipients) : recipients[i].amount = 0)
             => last'.result = InvalidAmount /\ ~last'.changed

\* C16: a batch_transfer by a caller whose balance is below the total of the amounts
\* returns InsufficientBalance, and otherwise one whose list holds an amount of 0
\* returns InvalidAmount, also when an earlier entry names the caller; in both cases
\* the storage is as it was.
C16_BatchRejectedWhole ==
    [][last'.op = "batch_transfer" =>
          \A recipients \in RecipientLists, overflow_checks \in BOOLEAN :
              batch_transfer(last'.caller, recipients, overflow_checks)
                  => C16_Claim(last'.caller, recipients)]_vars

\* what C17 says of the batch_transfer that has just returned
C17_Claim(caller, recipients) ==
    /\ last'.result = Ok => TrueTotal(recipients) <= balances[caller]
    /\ SumOver(balances', Accounts \ {caller}) - SumOver(balances, Accounts \ {caller})
           <= balances[caller]

\* C17: a batch_transfer succeeds only if the sum of the amounts, taken without the
\* limit of u128, is at most the caller's balance, and it never credits more than the
\* caller holds.
C17_BatchWithinBalance ==
    [][last'.op = "batch_transfer" =>
          \A recipients \in RecipientLists, overflow_checks \in BOOLEAN :
              batch_transfer(last'.caller, recipients, overflow_checks)
                  => C17_Claim(last'.caller, recipients)]_vars

-----------------------------------------------------------------------------
(* mint and burn *)

\* C13: a mint of a positive amount by the owner succeeds exactly when neither
\* balance_of(to) + amount nor total_supply + amount leaves u128 and fails with
\* InvalidAmount otherwise; on success the recipient's balance and total_supply rise
\* by exactly amount and nothing else changes.
C13_MintExact ==
    \A to \in Accounts, amount \in Amounts \ {0} :
        LET out == mint_call(Storage, owner, to, amount)
            fits == /\ balances[to] + amount <= U128_MAX
                    /\ total_supply + amount <= U128_MAX
        IN /\ out.result = IF fits THEN Ok ELSE InvalidAmount
           /\ fits => out.state = [Storage EXCEPT !.balances[to] = balances[to] + amount,
                                                  !.total_supply = total_supply + amount]

\* the owner's mint has failed on total_supply alone, after one that succeeded
C13_Witness ==
    /\ last.op = "mint"
    /\ last.caller = owner
    /\ last.result = InvalidAmount
    /\ last.changed
    /\ total_supply > 0

\* C14: a burn of a positive amount fails with InsufficientBalance and changes nothing
\* when the caller's balance is below amount, and otherwise succeeds and lowers the
\* caller's balance and total_supply by exactly amount.
C14_BurnExact ==
    [][last'.op = "burn" =>
          \A amount \in Amounts \ {0} :
              burn(last'.caller, amount) =>
                  IF balances[last'.caller] < amount
                  THEN last'.result = InsufficientBalance /\ ~last'.changed
                  ELSE /\ last'.result = Ok
                       /\ balances' = [balances EXCEPT ![last'.caller] = @ - amount]
                       /\ total_supply' = total_supply - amount
                       /\ UNCHANGED <<owner, allowances, paused, blacklisted>>
      ]_vars

-----------------------------------------------------------------------------
(* The compliance gate and the other messages *)

\* the values of the pause flag and of the blacklist
GateSettings == [paused : BOOLEAN, blacklisted : [Accounts -> BOOLEAN]]

\* the storage with the gate set to g
WithGate(s, g) == [s EXCEPT !.paused = g.paused, !.blacklisted = g.blacklisted]

\* the lists of at most one recipient
Singles == {recipients \in RecipientLists : Len(recipients) <= 1}

\* one call on the current storage and on the same storage under gate g: the same
\* result, the same event, the same balances, total_supply and allowances
SameEffect(out, gated) ==
    /\ gated.result = out.result
    /\ gated.event = out.event
    /\ gated.state.balances = out.state.balances
    /\ gated.state.total_supply = out.state.total_supply
    /\ gated.state.allowances = out.state.allowances

-----------------------------------------------------------------------------
(* Allowances *)

\* the message left every allowance as it was
KeepsAllowances(out) == out.state.allowances = allowances

\* C18: allowance(O, S) is raised by no message other than O's own approve for S, and
\* a successful transfer_from of S from O takes an amount that is at most
\* allowance(O, S) and lowers it by exactly that amount; so between two approves of O
\* for S the amounts S draws from O add up to at most the approved amount.
C18_SpenderWithinAllowance ==
    Fresh =>
        \A caller \in Accounts :
            /\ KeepsAllowances(pause_call(Storage, caller))
            /\ KeepsAllowances(unpause_call(Storage, caller))
            /\ \A amount \in Amounts : KeepsAllowances(burn_call(Storage, caller, amount))
            /\ \A recipients \in Singles, overflow_checks \in BOOLEAN :
                  KeepsAllowances(batch_transfer_call(Storage, caller, recipients,
                                                      overflow_checks))
            /\ \A to \in Accounts :
                  /\ KeepsAllowances(blacklist_call(Storage, caller, to))
                  /\ KeepsAllowances(unblacklist_call(Storage, caller, to))
                  /\ \A amount \in Amounts :
                        /\ KeepsAllowances(mint_call(Storage, caller, to, amount))
                        /\ KeepsAllowances(transfer_call(Storage, caller, to, amount))
            /\ \A spender \in Accounts, amount \in Amounts :
                  LET out == approve_call(Storage, caller, spender, amount)
                  IN \A o, s \in Accounts :
                        <<o, s>> # <<caller, spender>> =>
                            allowance(out.state, o, s) = allowance(Storage, o, s)
            /\ \A from, to \in Accounts, amount \in Amounts :
                  LET out == transfer_from_call(Storage, caller, from, to, amount)
                  IN IF out.result = Ok
                     THEN /\ amount <= allowance(Storage, from, caller)
                          /\ out.state.allowances =
                                 [allowances EXCEPT ![<<from, caller>>] = @ - amount]
                     ELSE KeepsAllowances(out)

\* a spender has drawn all the holder approved, and the holder still has tokens
C18_Witness ==
    /\ last.op = "transfer_from"
    /\ last.result = Ok
    /\ \E from \in Accounts \ {last.caller} :
          /\ allowance(Storage, from, last.caller) = 0
          /\ balance_of(Storage, from) > 0
          /\ balance_of(Storage, last.caller) > 0

-----------------------------------------------------------------------------
(* Frame conditions *)

\* the message left every field of the storage outside `fields` as it was
Only(out, fields) ==
    \A f \in (DOMAIN Storage) \ fields : out.state[f] = Storage[f]

\* C19: the owner is the creator in every state and no message changes it; only mint
\* and burn change total_supply; only mint, burn, transfer, transfer_from and
\* batch_transfer change a balance; only approve and transfer_from change an allowance;
\* only pause and unpause change the pause flag; only blacklist and unblacklist change
\* the blacklist; all this whether the message succeeds or fails.
C19_Frame ==
    Fresh =>
        /\ owner \in Creators
        /\ \A caller \in Accounts :
              /\ Only(pause_call(Storage, caller), {"paused"})
              /\ Only(unpause_call(Storage, caller), {"paused"})
              /\ \A amount \in Amounts :
                    Only(burn_call(Storage, caller, amount), {"balances", "total_supply"})
              /\ \A recipients \in Singles, overflow_checks \in BOOLEAN :
                    Only(batch_transfer_call(Storage, caller, recipients, overflow_checks),
                         {"balances"})
              /\ \A to \in Accounts :
                    /\ Only(blacklist_call(Storage, caller, to), {"blacklisted"})
                    /\ Only(unblacklist_call(Storage, caller, to), {"blacklisted"})
                    /\ \A amount \in Amounts :
                          /\ Only(mint_call(Storage, caller, to, amount),
                                  {"balances", "total_supply"})
                          /\ Only(transfer_call(Storage, caller, to, amount), {"balances"})
                          /\ Only(approve_call(Storage, caller, to, amount), {"allowances"})
                          /\ \A from \in Accounts :
                                Only(transfer_from_call(Storage, caller, from, to, amount),
                                     {"balances", "allowances"})

\* the owner has blacklisted a holder of tokens who has approved a spender, and only
\* the blacklist changed
C19_Witness ==
    /\ last.op = "blacklist"
    /\ last.changed
    /\ ~paused
    /\ \E a, b \in Accounts :
          blacklisted[a] /\ balance_of(Storage, a) > 0 /\ allowance(Storage, a, b) > 0

-----------------------------------------------------------------------------
(* Events *)

\* the message emitted no event
Silent(out) == out.event = NoEvent

\* C20: a mint that succeeds emits the one event TokensMinted(to, amount), a transfer
\* that succeeds the one event TokensTransferred(caller, to, amount); a message that
\* returns an error emits none, and neither does any other message: the events of a
\* run are, in order, its successful mints and transfers.
C20_EventsFollowSuccess ==
    /\ (last.event # NoEvent) <=> (last.op \in {"mint", "transfer"} /\ last.result = Ok)
    /\ last.event.kind = "TokensMinted" => last.op = "mint"
    /\ last.event.kind = "TokensTransferred" =>
           last.op = "transfer" /\ last.event.from = last.caller
    /\ Fresh =>
          \A caller \in Accounts :
              /\ \A to \in Accounts, amount \in Amounts :
                    LET minted == mint_call(Storage, caller, to, amount)
                        sent == transfer_call(Storage, caller, to, amount)
                    IN /\ minted.event = IF minted.result = Ok
                                         THEN TokensMinted(to, amount) ELSE NoEvent
                       /\ sent.event = IF sent.result = Ok
                                       THEN TokensTransferred(caller, to, amount)
                                       ELSE NoEvent
              /\ Silent(pause_call(Storage, caller))
              /\ Silent(unpause_call(Storage, caller))
              /\ \A amount \in Amounts : Silent(burn_call(Storage, caller, amount))
              /\ \A recipients \in Singles, overflow_checks \in BOOLEAN :
                    Silent(batch_transfer_call(Storage, caller, recipients,
                                               overflow_checks))
              /\ \A to \in Accounts :
                    /\ Silent(blacklist_call(Storage, caller, to))
                    /\ Silent(unblacklist_call(Storage, caller, to))
                    /\ \A amount \in Amounts :
                          /\ Silent(approve_call(Storage, caller, to, amount))
                          /\ \A from \in Accounts :
                                Silent(transfer_from_call(Storage, caller, from, to,
                                                          amount))

\* a transfer has succeeded and emitted its event
C20_Witness ==
    /\ last.op = "transfer"
    /\ last.result = Ok
    /\ last.event.kind = "TokensTransferred"
    /\ balance_of(Storage, last.event.to) >= last.event.amount

=============================================================================
